---- MODULE Spec2Model ----
(***************************************************************************)
(* Model of the Mana NFT collection contract (src/assembly/Constants.ts,   *)
(* class Collections): supply, token records, balances, per-owner token    *)
(* lists, single-token approvals, operator approvals and configuration.    *)
(*                                                                         *)
(* Every entry point is a handler operator that reads the current storage  *)
(* and returns the outcome of the call: the error (or OK), the storage as  *)
(* the handler leaves it, the events it emits, and whether a storage write *)
(* or event preceded the failing check.  The host reverts every write of a *)
(* failed call, so an action commits a handler's storage only when the     *)
(* handler returns OK.                                                     *)
(***************************************************************************)
EXTENDS Integers, Sequences, FiniteSets, TLC

(***************************************************************************)
(* Bounds and program constants                                            *)
(***************************************************************************)

\* Constants.MAX_SUPPLY is 10000000 in the source; the model runs the same
\* comparisons against a small ceiling so that the ceiling is reached.
MAX_SUPPLY == 2

\* Largest value of the unsigned integer type.  The source uses u64; TLC's
\* integers are 32 bits wide, so the width is scaled to 30 bits and every
\* checked operation tests for overflow before it computes.
U64_MAX == 1073741823

\* Constants.MINT_PRICE (the initial value of the mana price object).
MINT_PRICE == 100000000

\* The per-call limit of mint.
MINT_LIMIT == 10

\* The ceiling of the royalty sum in set_royalties.
ROYALTY_MAX == 10000

\* Fixed weights of the mint operation's own footprint.
mintComputeValue == 1123019
mintNetworkValue == 282
mintDiskStorageValue == 66

\* The compute cost of one loop of _consumeMana.
computeCostPerLoop == 14

\* Account addresses.  NoAddr is the empty byte sequence: the value of an
\* address_object that was never set, and the caller field of a call made
\* directly by a transaction.
Accounts == {"a", "b"}
NoAddr == ""
Callers == Accounts \cup {NoAddr}

\* Constants.OWNER: a fixed non-empty address.
OWNER == "a"

\* The answers of the host's authority check during one call: the set of
\* accounts whose authority it confirms.
AuthSets == SUBSET Accounts

\* A handler asks the host about one account only, so for a call that asks
\* about x two answers cover every outcome: nobody, or x.
AuthFor(x) == {{}, {x}}

(***************************************************************************)
(* u64.toString(): decimal digits, most significant first.                 *)
(***************************************************************************)
Digit == <<"0", "1", "2", "3", "4", "5", "6", "7", "8", "9">>

RECURSIVE toString(_)
toString(n) ==
    IF n < 10 THEN Digit[n + 1]
    ELSE toString(n \div 10) \o Digit[(n % 10) + 1]

\* Token identifiers a caller may pass: the decimal forms of 0 .. MAX_SUPPLY
\* (0 names no token: the first id minted is 1) and a form with a leading
\* zero, which is the decimal form of no number.
TokenInputs == {toString(i) : i \in 0..MAX_SUPPLY} \cup {"01"}

\* Counts a caller may pass to mint.
MintCounts == (0..(MAX_SUPPLY + 1)) \cup {MINT_LIMIT + 1, U64_MAX}

\* Resource limits the host may report to mint: compute, network and disk
\* storage cost per unit.
ResourceLimits ==
    { [compute |-> 1, network |-> 1, disk |-> 1],
      [compute |-> 100, network |-> 10, disk |-> 10],
      [compute |-> 0, network |-> 0, disk |-> 0],
      [compute |-> U64_MAX, network |-> 1, disk |-> 1] }

\* Royalty schedules a caller may pass to set_royalties.
RoyaltyInputs ==
    { <<>>,
      <<[address |-> "a", amount |-> 5000], [address |-> "b", amount |-> 5000]>>,
      <<[address |-> "a", amount |-> ROYALTY_MAX], [address |-> "b", amount |-> 1]>>,
      <<[address |-> "a", amount |-> U64_MAX], [address |-> "b", amount |-> 1]>> }

(***************************************************************************)
(* Storage                                                                 *)
(***************************************************************************)
VARIABLES
    supply,     \* _supply: the value of the supply object
    tokens,     \* _tokens: token id -> owner, for the stored ids
    balances,   \* _balances: account -> count (0 where nothing is stored)
    approvals,  \* _approvals: token id -> approved address, for the stored ids
    operators,  \* _operators: operator key -> approved flag, for the stored keys
    tokensOf,   \* _tokensOf: account -> list of token ids ([] where nothing is stored)
    config,     \* _config: [owner, royalties]
    manaCost    \* _manaCost: the mana price of one token

vars == <<supply, tokens, balances, approvals, operators, tokensOf, config, manaCost>>

\* The storage as one value.
Storage ==
    [ supply |-> supply, tokens |-> tokens, balances |-> balances,
      approvals |-> approvals, operators |-> operators, tokensOf |-> tokensOf,
      config |-> config, manaCost |-> manaCost ]

\* Storage.Map.put / remove on a map kept as a function over its stored keys.
MapPut(m, k, v) == [x \in (DOMAIN m) \cup {k} |-> IF x = k THEN v ELSE m[x]]
MapRemove(m, k) == [x \in (DOMAIN m) \ {k} |-> m[x]]
MapHas(m, k) == k \in DOMAIN m

\* The empty map.
EmptyMap == [x \in {} |-> NoAddr]

(***************************************************************************)
(* Outcomes of a call                                                      *)
(***************************************************************************)
OK == "ok"

\* A call that returns normally: the storage it leaves, its events and the
\* number of loops _consumeMana ran (0 for every entry point but mint).
Done(st, events, loops) ==
    [ err |-> OK, code |-> OK, st |-> st, events |-> events,
      wrote |-> TRUE, loops |-> loops ]

\* A call that reverts with message and error code.  The host discards its
\* writes and events; wrote records whether it had performed a storage
\* write, a removal or an event emission before the failing check.
Fail(message, code, wrote) ==
    [ err |-> message, code |-> code, st |-> Storage, events |-> <<>>,
      wrote |-> wrote, loops |-> 0 ]

(***************************************************************************)
(* SafeMath: checked unsigned arithmetic                                   *)
(***************************************************************************)
AddOverflows(a, b) == a > U64_MAX - b
SubUnderflows(a, b) == b > a
MulOverflows(a, b) == a # 0 /\ b > U64_MAX \div a

(***************************************************************************)
(* Read-only entry points                                                  *)
(***************************************************************************)
total_supply == supply
balance_of(owner) == balances[owner]
tokens_of(owner) == tokensOf[owner]
owner_of(token_id) == IF MapHas(tokens, token_id) THEN tokens[token_id] ELSE NoAddr
get_approved(token_id) ==
    IF MapHas(approvals, token_id) THEN approvals[token_id] ELSE NoAddr

\* The storing key of an operator approval: the operator's address, a
\* separator that no address encoding contains, then the owner's address.
get_approved_operator_key(operator, owner) == <<operator, owner>>

is_approved_for_all(owner, operator) ==
    LET key == get_approved_operator_key(operator, owner)
    IN  IF MapHas(operators, key) THEN operators[key] ELSE FALSE

(***************************************************************************)
(* mint                                                                    *)
(***************************************************************************)
MintEvent(to, tokenId) ==
    [name |-> "collections.mint_event", to |-> to, token_id |-> tokenId,
     impacted |-> <<to>>]

\* (variant) the limit compared one too high
MintLimitOkOffByOne(n) == n <= MINT_LIMIT + 1

\* The per-call limit on the number of tokens.
MintLimitOk(n) == n <= MINT_LIMIT

\* (variant) the ceiling compared one too high
MintTotalOkOffByOne(total) == total > 0 /\ total <= MAX_SUPPLY + 1

\* The two bounds checks on the new total.
MintTotalOk(total) == total > 0 /\ total <= MAX_SUPPLY

\* (variant) the loop started at the current supply
MintStartAtSupply(s) == s

\* The first token id of a mint.
MintStart(s) == s + 1

\* (variant) the id put at the front of the recipient's list
MintIterationPrepend(acc, to, index) ==
    LET tokenId == toString(index)
    IN  [ tokens |-> MapPut(acc.tokens, tokenId, to),
          tokensOf |-> [acc.tokensOf EXCEPT ![to] = <<tokenId>> \o @],
          events |-> Append(acc.events, MintEvent(to, tokenId)) ]

\* (variant) the loop emits no event
MintIterationSilent(acc, to, index) ==
    LET tokenId == toString(index)
    IN  [ tokens |-> MapPut(acc.tokens, tokenId, to),
          tokensOf |-> [acc.tokensOf EXCEPT ![to] = Append(@, tokenId)],
          events |-> acc.events ]

\* One iteration of the minting loop: store the token with its owner, push
\* the id on the recipient's list, emit the mint event.
MintIteration(acc, to, index) ==
    LET tokenId == toString(index)
    IN  [ tokens |-> MapPut(acc.tokens, tokenId, to),
          tokensOf |-> [acc.tokensOf EXCEPT ![to] = Append(@, tokenId)],
          events |-> Append(acc.events, MintEvent(to, tokenId)) ]

\* for (index = start; index <= total; index++)
RECURSIVE MintLoop(_, _, _, _)
MintLoop(acc, to, index, total) ==
    IF index <= total
    THEN MintLoop(MintIteration(acc, to, index), to, index + 1, total)
    ELSE acc

\* (variant) the cost of one loop left out of the division
consumeManaNoLoopCost(manaToConsume, computeCost) ==
    IF computeCost = 0 THEN -1
    ELSE manaToConsume \div computeCost

\* _consumeMana: the number of loops performed, or -1 when the division fails.
consumeMana(manaToConsume, computeCost) ==
    IF computeCost = 0 THEN -1
    ELSE (manaToConsume \div computeCost) \div computeCostPerLoop

\* The balance written for the recipient.
MintNewBalance(balance, n) == balance + n

\* The supply written by mint.
MintNewSupply(s, n) == s + n

mint(to, n, rl) ==
    IF AddOverflows(supply, n) THEN Fail("could not add", "failure", FALSE)
    ELSE
    LET total == supply + n IN
    IF ~MintLimitOk(n)
    THEN Fail("exceeds the limit of tokens to mint of 10", "failure", FALSE)
    ELSE IF ~MintTotalOk(total)
    THEN Fail("token id out of bounds", "failure", FALSE)
    ELSE IF AddOverflows(supply, 1) THEN Fail("could not add", "failure", FALSE)
    ELSE
    LET balance == balances[to]
        start == MintStart(supply)
        loop == MintLoop([tokens |-> tokens, tokensOf |-> tokensOf, events |-> <<>>],
                         to, start, total)
        wroteLoop == start <= total
    IN
    IF AddOverflows(balance, n) THEN Fail("could not add", "failure", wroteLoop)
    ELSE IF ~(MintNewBalance(balance, n) <= MAX_SUPPLY)
    THEN Fail("exceeds the limit of tokens per address", "failure", wroteLoop)
    ELSE
    LET st == [Storage EXCEPT
                  !.tokens = loop.tokens,
                  !.tokensOf = loop.tokensOf,
                  !.balances = [balances EXCEPT ![to] = MintNewBalance(balance, n)],
                  !.supply = MintNewSupply(supply, n)]
    IN
    IF \/ MulOverflows(mintComputeValue, rl.compute)
       \/ MulOverflows(mintNetworkValue, rl.network)
       \/ MulOverflows(mintDiskStorageValue, rl.disk)
    THEN Fail("could not multiply", "failure", TRUE)
    ELSE
    LET c == mintComputeValue * rl.compute
        w == mintNetworkValue * rl.network
        d == mintDiskStorageValue * rl.disk
    IN
    IF AddOverflows(c, w) THEN Fail("could not add", "failure", TRUE)
    ELSE IF AddOverflows(c + w, d) THEN Fail("could not add", "failure", TRUE)
    ELSE IF MulOverflows(manaCost, n) THEN Fail("could not multiply", "failure", TRUE)
    ELSE
    LET manaConsumed == (c + w) + d
        totalManaToConsume == manaCost * n
        remainingManaToConsume ==
            IF totalManaToConsume > manaConsumed
            THEN totalManaToConsume - manaConsumed
            ELSE 0
        loops == consumeMana(remainingManaToConsume, rl.compute)
    IN
    IF loops < 0 THEN Fail("could not divide", "failure", TRUE)
    ELSE Done(st, loop.events, loops)

\* (variant) burn takes one off the supply
burnDecrementsSupply(token_id) ==
    Done([Storage EXCEPT !.supply = IF supply > 0 THEN supply - 1 ELSE 0], <<>>, 0)

\* (variant) burn removes the token record
burnRemovesToken(token_id) ==
    Done([Storage EXCEPT !.tokens = MapRemove(tokens, token_id)], <<>>, 0)

\* burn returns at once.
burn(token_id) == Done(Storage, <<>>, 0)

(***************************************************************************)
(* transfer                                                                *)
(***************************************************************************)
\* Array.indexOf: the first position of x in list (1-based), 0 when absent.
RECURSIVE IndexFrom(_, _, _)
IndexFrom(list, x, i) ==
    IF i > Len(list) THEN 0
    ELSE IF list[i] = x THEN i
    ELSE IndexFrom(list, x, i + 1)

indexOf(list, x) == IndexFrom(list, x, 1)

\* Array.splice(index, 1): the list without the element at position i.
splice(list, i) == SubSeq(list, 1, i - 1) \o SubSeq(list, i + 1, Len(list))

\* (variant) the operator key built with its two addresses exchanged
isTokenApprovedKeySwapped(caller, from, token_id, auth) ==
    \/ MapHas(approvals, token_id) /\ approvals[token_id] = caller
    \/ LET key == get_approved_operator_key(tokens[token_id], caller)
       IN  MapHas(operators, key) /\ operators[key]
    \/ from \in auth

\* The approval check made when the caller is not the from account: the
\* single-token approval, then the operator approval stored for
\* (caller, token owner), then the host's authority check for from.
isTokenApproved(caller, from, token_id, auth) ==
    \/ MapHas(approvals, token_id) /\ approvals[token_id] = caller
    \/ LET key == get_approved_operator_key(caller, tokens[token_id])
       IN  MapHas(operators, key) /\ operators[key]
    \/ from \in auth

TransferAuthorized(caller, from, token_id, auth) ==
    caller = from \/ isTokenApproved(caller, from, token_id, auth)

\* (variant) the approval left in place
TransferApprovalsKept(token_id) == approvals

\* The single-token approvals after the removal made by transfer.
TransferApprovals(token_id) == MapRemove(approvals, token_id)

\* The token records after the put of the token with its new owner.
TransferTokens(to, token_id) == MapPut(tokens, token_id, to)

\* The balances after transfer's two puts: both objects are read before
\* either is written; the to balance is written first, the from balance last.
TransferBalances(from, to) ==
    LET balance_from == balances[from] - 1
        balance_to == balances[to] + 1
        afterTo == [balances EXCEPT ![to] = balance_to]
    IN  [afterTo EXCEPT ![from] = balance_from]

\* The token lists after transfer's two puts: both lists are read before
\* either is written; the from list is written first, the to list last.
TransferTokensOf(from, to, token_id) ==
    LET tokens_list_from == tokensOf[from]
        tokens_list_to == tokensOf[to]
        token_index == indexOf(tokens_list_from, token_id)
        afterFrom == [tokensOf EXCEPT ![from] = splice(tokens_list_from, token_index)]
    IN  [afterFrom EXCEPT ![to] = Append(tokens_list_to, token_id)]

TransferEvent(from, to, token_id) ==
    [name |-> "collections.transfer_event", from |-> from, to |-> to,
     token_id |-> token_id, impacted |-> <<to, from>>]

transfer(from, to, token_id, caller, auth) ==
    IF ~MapHas(tokens, token_id)
    THEN Fail("nonexistent token", "failure", FALSE)
    ELSE IF tokens[token_id] # from
    THEN Fail("from is not a owner", "authorization_failure", FALSE)
    ELSE IF ~TransferAuthorized(caller, from, token_id, auth)
    THEN Fail("from has not authorized transfer", "authorization_failure", FALSE)
    \* the approval is removed here: every later failure follows a removal
    ELSE IF SubUnderflows(balances[from], 1)
    THEN Fail("could not subtract", "failure", TRUE)
    ELSE IF AddOverflows(balances[to], 1)
    THEN Fail("could not add", "failure", TRUE)
    ELSE IF indexOf(tokensOf[from], token_id) = 0
    THEN Fail("the sender do not own this token according to tokens list",
              "failure", TRUE)
    ELSE Done([Storage EXCEPT
                  !.approvals = TransferApprovals(token_id),
                  !.tokensOf = TransferTokensOf(from, to, token_id),
                  !.tokens = TransferTokens(to, token_id),
                  !.balances = TransferBalances(from, to)],
              <<TransferEvent(from, to, token_id)>>, 0)

(***************************************************************************)
(* approve                                                                 *)
(***************************************************************************)
\* (variant) the operator key built with its two addresses exchanged
ApproverAllowedKeySwapped(approver_address, owner) ==
    \/ owner = approver_address
    \/ LET key == get_approved_operator_key(owner, approver_address)
       IN  MapHas(operators, key) /\ operators[key]

\* Whether approver_address may approve a token of owner: it is the owner,
\* or an operator approval is stored for (approver_address, owner) and is set.
ApproverAllowed(approver_address, owner) ==
    \/ owner = approver_address
    \/ LET key == get_approved_operator_key(approver_address, owner)
       IN  MapHas(operators, key) /\ operators[key]

ApprovalEvent(approver_address, to, token_id) ==
    [name |-> "collections.token_approval_event", approver_address |-> approver_address,
     to |-> to, token_id |-> token_id, impacted |-> <<to, approver_address>>]

\* (variant) a token that does not exist reported as an authorization failure
approveNotFoundAsAuthorization(approver_address, to, token_id, auth) ==
    IF approver_address \notin auth
    THEN Fail("account has not authorized action", "authorization_failure", FALSE)
    ELSE IF ~MapHas(tokens, token_id)
    THEN Fail("nonexistent token", "authorization_failure", FALSE)
    ELSE IF tokens[token_id] = to
    THEN Fail("approve to current owner", "failure", FALSE)
    ELSE IF /\ tokens[token_id] # approver_address
            /\ ~MapHas(operators,
                       get_approved_operator_key(approver_address, tokens[token_id]))
    THEN Fail("approved does not exist", "authorization_failure", FALSE)
    ELSE IF ~ApproverAllowed(approver_address, tokens[token_id])
    THEN Fail("approver_address is not owner", "authorization_failure", FALSE)
    ELSE Done([Storage EXCEPT !.approvals = MapPut(approvals, token_id, to)],
              <<ApprovalEvent(approver_address, to, token_id)>>, 0)

\* (variant) the to account not compared with the owner
approveToOwnerAllowed(approver_address, to, token_id, auth) ==
    IF approver_address \notin auth
    THEN Fail("account has not authorized action", "authorization_failure", FALSE)
    ELSE IF ~MapHas(tokens, token_id)
    THEN Fail("nonexistent token", "failure", FALSE)
    ELSE IF /\ tokens[token_id] # approver_address
            /\ ~MapHas(operators,
                       get_approved_operator_key(approver_address, tokens[token_id]))
    THEN Fail("approved does not exist", "authorization_failure", FALSE)
    ELSE IF ~ApproverAllowed(approver_address, tokens[token_id])
    THEN Fail("approver_address is not owner", "authorization_failure", FALSE)
    ELSE Done([Storage EXCEPT !.approvals = MapPut(approvals, token_id, to)],
              <<ApprovalEvent(approver_address, to, token_id)>>, 0)

\* approve: the authority of approver_address, the existence of the token,
\* the to account against the owner, then the approver against the owner.
approve(approver_address, to, token_id, auth) ==
    IF approver_address \notin auth
    THEN Fail("account has not authorized action", "authorization_failure", FALSE)
    ELSE IF ~MapHas(tokens, token_id)
    THEN Fail("nonexistent token", "failure", FALSE)
    ELSE IF tokens[token_id] = to
    THEN Fail("approve to current owner", "failure", FALSE)
    ELSE IF /\ tokens[token_id] # approver_address
            /\ ~MapHas(operators,
                       get_approved_operator_key(approver_address, tokens[token_id]))
    THEN Fail("approved does not exist", "authorization_failure", FALSE)
    ELSE IF ~ApproverAllowed(approver_address, tokens[token_id])
    THEN Fail("approver_address is not owner", "authorization_failure", FALSE)
    ELSE Done([Storage EXCEPT !.approvals = MapPut(approvals, token_id, to)],
              <<ApprovalEvent(approver_address, to, token_id)>>, 0)

(***************************************************************************)
(* set_approval_for_all                                                    *)
(***************************************************************************)
OperatorApprovalEvent(approver_address, operator_address, approved) ==
    [name |-> "collections.operator_approval_event",
     approver_address |-> approver_address, operator_address |-> operator_address,
     approved |-> approved, impacted |-> <<operator_address, approver_address>>]

\* (variant) the operator key built with its two addresses exchanged
SetOperatorsKeySwapped(approver_address, operator_address, approved) ==
    MapPut(operators,
           get_approved_operator_key(approver_address, operator_address),
           approved)

\* (variant) a stored flag inverted instead of overwritten
SetOperatorsFlip(approver_address, operator_address, approved) ==
    LET key == get_approved_operator_key(operator_address, approver_address)
    IN  MapPut(operators, key,
               IF MapHas(operators, key) THEN ~operators[key] ELSE approved)

\* The operator approvals after the put made by set_approval_for_all.
SetOperators(approver_address, operator_address, approved) ==
    MapPut(operators,
           get_approved_operator_key(operator_address, approver_address),
           approved)

set_approval_for_all(approver_address, operator_address, approved, auth) ==
    IF approver_address \notin auth
    THEN Fail("account has not authorized action", "authorization_failure", FALSE)
    ELSE IF approver_address = operator_address
    THEN Fail("approve to operator_address", "authorization_failure", FALSE)
    ELSE Done([Storage EXCEPT
                  !.operators = SetOperators(approver_address, operator_address, approved)],
              <<OperatorApprovalEvent(approver_address, operator_address, approved)>>, 0)

(***************************************************************************)
(* set_royalties, transfer_ownership                                       *)
(***************************************************************************)
\* (variant) the authority asked for the owner the contract started with
checkOwnerInitial(cfg, auth) == OWNER \in auth

\* _checkOwner: the host's authority check for the configured owner.
checkOwner(cfg, auth) == cfg.owner \in auth

\* The checked running sum of the amounts of a schedule, -1 on overflow.
RECURSIVE RoyaltiesTotal(_, _, _)
RoyaltiesTotal(royalties, index, total) ==
    IF index > Len(royalties) THEN total
    ELSE IF AddOverflows(total, royalties[index].amount) THEN -1
    ELSE RoyaltiesTotal(royalties, index + 1, total + royalties[index].amount)

\* (variant) the ceiling compared one too high
RoyaltiesWithinMaxOffByOne(total) == total <= ROYALTY_MAX + 1

\* The ceiling on the sum of a schedule.
RoyaltiesWithinMax(total) == total <= ROYALTY_MAX

RoyaltiesEvent(royalties) ==
    [name |-> "collections.royalties_event", value |-> royalties,
     impacted |-> [i \in 1..Len(royalties) |-> royalties[i].address]]

set_royalties(value, auth) ==
    IF ~checkOwner(config, auth)
    THEN Fail("account has not authorized action", "authorization_failure", FALSE)
    ELSE
    LET royaltiesTotal == RoyaltiesTotal(value, 1, 0) IN
    IF royaltiesTotal < 0 THEN Fail("could not add", "failure", FALSE)
    ELSE IF ~RoyaltiesWithinMax(royaltiesTotal)
    THEN Fail("MarketplaceV1.execute: ROYALTY_EXCEEDED_MAX", "failure", FALSE)
    ELSE Done([Storage EXCEPT !.config = [config EXCEPT !.royalties = value]],
              <<RoyaltiesEvent(value)>>, 0)

OwnerEvent(from, to) ==
    [name |-> "collections.owner_event", from |-> from, to |-> to,
     impacted |-> <<from, to>>]

transfer_ownership(owner, auth) ==
    IF ~checkOwner(config, auth)
    THEN Fail("account has not authorized action", "authorization_failure", FALSE)
    ELSE Done([Storage EXCEPT !.config = [config EXCEPT !.owner = owner]],
              <<OwnerEvent(config.owner, owner)>>, 0)

(***************************************************************************)
(* Specification                                                           *)
(***************************************************************************)
Init ==
    /\ supply = 0
    /\ tokens = EmptyMap
    /\ balances = [x \in Accounts |-> 0]
    /\ approvals = EmptyMap
    /\ operators = [x \in {} |-> FALSE]
    /\ tokensOf = [x \in Accounts |-> <<>>]
    /\ config = [owner |-> OWNER, royalties |-> <<>>]
    /\ manaCost = MINT_PRICE

\* In every action r is the outcome of the call: the host commits the storage
\* of a call that returns normally and discards the writes of a call that fails.

Mint ==
    \E to \in Accounts, n \in MintCounts, rl \in ResourceLimits :
        \E r \in {mint(to, n, rl)} :
            IF r.err = OK
            THEN /\ supply' = r.st.supply
                 /\ tokens' = r.st.tokens
                 /\ balances' = r.st.balances
                 /\ approvals' = r.st.approvals
                 /\ operators' = r.st.operators
                 /\ tokensOf' = r.st.tokensOf
                 /\ config' = r.st.config
                 /\ manaCost' = r.st.manaCost
            ELSE UNCHANGED vars

Burn ==
    \E t \in TokenInputs :
        \E r \in {burn(t)} :
            IF r.err = OK
            THEN /\ supply' = r.st.supply
                 /\ tokens' = r.st.tokens
                 /\ balances' = r.st.balances
                 /\ approvals' = r.st.approvals
                 /\ operators' = r.st.operators
                 /\ tokensOf' = r.st.tokensOf
                 /\ config' = r.st.config
                 /\ manaCost' = r.st.manaCost
            ELSE UNCHANGED vars

Transfer ==
    \E from \in Accounts, to \in Accounts, t \in TokenInputs, caller \in Callers :
      \E auth \in AuthFor(from) :
        \E r \in {transfer(from, to, t, caller, auth)} :
            IF r.err = OK
            THEN /\ supply' = r.st.supply
                 /\ tokens' = r.st.tokens
                 /\ balances' = r.st.balances
                 /\ approvals' = r.st.approvals
                 /\ operators' = r.st.operators
                 /\ tokensOf' = r.st.tokensOf
                 /\ config' = r.st.config
                 /\ manaCost' = r.st.manaCost
            ELSE UNCHANGED vars

Approve ==
    \E approver \in Accounts, to \in Accounts, t \in TokenInputs :
      \E auth \in AuthFor(approver) :
        \E r \in {approve(approver, to, t, auth)} :
            IF r.err = OK
            THEN /\ supply' = r.st.supply
                 /\ tokens' = r.st.tokens
                 /\ balances' = r.st.balances
                 /\ approvals' = r.st.approvals
                 /\ operators' = r.st.operators
                 /\ tokensOf' = r.st.tokensOf
                 /\ config' = r.st.config
                 /\ manaCost' = r.st.manaCost
            ELSE UNCHANGED vars

SetApprovalForAll ==
    \E approver \in Accounts, operator \in Accounts, approved \in BOOLEAN :
      \E auth \in AuthFor(approver) :
        \E r \in {set_approval_for_all(approver, operator, approved, auth)} :
            IF r.err = OK
            THEN /\ supply' = r.st.supply
                 /\ tokens' = r.st.tokens
                 /\ balances' = r.st.balances
                 /\ approvals' = r.st.approvals
                 /\ operators' = r.st.operators
                 /\ tokensOf' = r.st.tokensOf
                 /\ config' = r.st.config
                 /\ manaCost' = r.st.manaCost
            ELSE UNCHANGED vars

SetRoyalties ==
    \E value \in RoyaltyInputs, auth \in AuthSets :
        \E r \in {set_royalties(value, auth)} :
            IF r.err = OK
            THEN /\ supply' = r.st.supply
                 /\ tokens' = r.st.tokens
                 /\ balances' = r.st.balances
                 /\ approvals' = r.st.approvals
                 /\ operators' = r.st.operators
                 /\ tokensOf' = r.st.tokensOf
                 /\ config' = r.st.config
                 /\ manaCost' = r.st.manaCost
            ELSE UNCHANGED vars

TransferOwnership ==
    \E owner \in Accounts, auth \in AuthSets :
        \E r \in {transfer_ownership(owner, auth)} :
            IF r.err = OK
            THEN /\ supply' = r.st.supply
                 /\ tokens' = r.st.tokens
                 /\ balances' = r.st.balances
                 /\ approvals' = r.st.approvals
                 /\ operators' = r.st.operators
                 /\ tokensOf' = r.st.tokensOf
                 /\ config' = r.st.config
                 /\ manaCost' = r.st.manaCost
            ELSE UNCHANGED vars

Next ==
    \/ Mint
    \/ Burn
    \/ Transfer
    \/ Approve
    \/ SetApprovalForAll
    \/ SetRoyalties
    \/ TransferOwnership

Spec == Init /\ [][Next]_vars

(***************************************************************************)
(* Properties                                                              *)
(***************************************************************************)
\* The token ids whose record names account x as owner.
OwnedBy(x) == {t \in DOMAIN tokens : tokens[t] = x}

\* The ids written by a mint of n tokens from the current supply.
NewIds(n) == {toString(supply + i) : i \in 1..n}

\* C1: for every account, the stored balance equals the number of token
\* records owned by the account and equals the length of its token list.
C1_BalanceMatchesOwnedAndListed ==
    \A x \in Accounts :
        /\ balance_of(x) = Cardinality(OwnedBy(x))
        /\ balance_of(x) = Len(tokens_of(x))

\* C2: the supply stays within 0 .. MAX_SUPPLY, and a mint whose count would
\* take the supply past MAX_SUPPLY fails and changes nothing.
C2_SupplyWithinMax ==
    /\ supply \in 0..MAX_SUPPLY
    /\ \A to \in Accounts, n \in MintCounts, rl \in ResourceLimits :
          n > MAX_SUPPLY - supply =>
              \A r \in {mint(to, n, rl)} :
                  r.err # OK /\ r.st = Storage /\ r.events = <<>> /\ ~r.wrote

\* C2 (reached): minting has taken the supply to the ceiling and a further
\* mint of one token is refused as out of bounds.
C2_Witness ==
    /\ supply = MAX_SUPPLY
    /\ \E to \in Accounts :
          mint(to, 1, [compute |-> 1, network |-> 1, disk |-> 1]).err
              = "token id out of bounds"

\* The cost figures of an ordinary call.
UnitCosts == [compute |-> 1, network |-> 1, disk |-> 1]

\* The caller conditions of a transfer, read through the read-only entry
\* points: the caller is from, holds the single-token approval of t, has the
\* operator approval stored for (caller, from), or the host confirms the
\* authority of from.
CallerMayTransfer(caller, from, t, auth) ==
    \/ caller = from
    \/ MapHas(approvals, t) /\ get_approved(t) = caller
    \/ is_approved_for_all(from, caller)
    \/ from \in auth

\* C3: a transfer succeeds only if the token exists, its owner is from and
\* the caller meets one of the caller conditions; a transfer of an existing
\* token by a caller meeting none of them fails with an authorization
\* failure before any write, leaving the storage as it was.
C3_TransferNeedsAuthorization ==
    \A from \in Accounts, to \in Accounts, t \in TokenInputs, caller \in Callers,
       auth \in AuthSets :
        \A r \in {transfer(from, to, t, caller, auth)} :
            /\ r.err = OK =>
                  /\ MapHas(tokens, t)
                  /\ owner_of(t) = from
                  /\ CallerMayTransfer(caller, from, t, auth)
            /\ (MapHas(tokens, t) /\ ~CallerMayTransfer(caller, from, t, auth)) =>
                  /\ r.code = "authorization_failure"
                  /\ r.st = Storage
                  /\ r.events = <<>>
                  /\ ~r.wrote

\* C3 (reached): a token of "a" carries an approval for somebody, an operator
\* approval is stored, and a caller who holds neither is refused.
C3_Witness ==
    /\ MapHas(tokens, "1") /\ tokens["1"] = "a"
    /\ MapHas(approvals, "1")
    /\ DOMAIN operators # {}
    /\ ~CallerMayTransfer(NoAddr, "a", "1", {})
    /\ transfer("a", "b", "1", NoAddr, {}).err = "from has not authorized transfer"
    /\ \E caller \in Callers \ {"a"} :
          transfer("a", "b", "1", caller, {}).err = OK

\* C4: a successful transfer leaves the token without single-token approval
\* and owned by the to account, whoever the caller was.
C4_TransferClearsApproval ==
    \A from \in Accounts, to \in Accounts, t \in TokenInputs, caller \in Callers,
       auth \in AuthSets :
        \A r \in {transfer(from, to, t, caller, auth)} :
            r.err = OK =>
                /\ ~MapHas(r.st.approvals, t)
                /\ MapHas(r.st.tokens, t) /\ r.st.tokens[t] = to

\* C4 (reached): token "1" of "a" is approved to "b", and the transfer that
\* "b" makes of it succeeds.
C4_Witness ==
    /\ MapHas(tokens, "1") /\ tokens["1"] = "a"
    /\ get_approved("1") = "b"
    /\ ~is_approved_for_all("a", "b")
    /\ LET r == transfer("a", "b", "1", "b", {})
       IN  r.err = OK /\ ~MapHas(r.st.approvals, "1") /\ r.st.tokens["1"] = "b"

\* Every call that can be made in the current state and fails.
FailedCalls ==
    {r \in
        {mint(to, n, rl) : to \in Accounts, n \in MintCounts, rl \in ResourceLimits}
        \cup {transfer(x[1], x[2], x[3], x[4], x[5]) :
                x \in Accounts \X Accounts \X TokenInputs \X Callers \X AuthSets}
        \cup {approve(x[1], x[2], x[3], x[4]) :
                x \in Accounts \X Accounts \X TokenInputs \X AuthSets}
        \cup {set_approval_for_all(x[1], x[2], x[3], x[4]) :
                x \in Accounts \X Accounts \X BOOLEAN \X AuthSets}
        \cup {set_royalties(v, auth) : v \in RoyaltyInputs, auth \in AuthSets}
        \cup {transfer_ownership(o, auth) : o \in Accounts, auth \in AuthSets} :
     r.err # OK}

\* C5: no call fails after it has written to storage, removed from storage
\* or emitted an event.
C5_ChecksBeforeWrites == \A r \in FailedCalls : ~r.wrote

\* C6: a mint of zero tokens fails, whatever the supply.
C6_MintZeroFails ==
    \A to \in Accounts, rl \in ResourceLimits : mint(to, 0, rl).err # OK

\* C7: a mint of more than MINT_LIMIT tokens fails on the limit check (or on
\* the checked addition before it), having written nothing and emitted nothing.
C7_MintOverLimitFails ==
    \A to \in Accounts, n \in MintCounts, rl \in ResourceLimits :
        n > MINT_LIMIT =>
            \A r \in {mint(to, n, rl)} :
                /\ r.err # OK
                /\ ~AddOverflows(supply, n) =>
                       r.err = "exceeds the limit of tokens to mint of 10"
                /\ r.st = Storage
                /\ r.events = <<>>
                /\ ~r.wrote

\* C7 (reached): tokens have been minted and a mint of MINT_LIMIT + 1 is
\* refused on the limit.
C7_Witness ==
    /\ supply > 0
    /\ mint("a", MINT_LIMIT + 1, UnitCosts).err
          = "exceeds the limit of tokens to mint of 10"

\* C8: a successful mint of n tokens from supply s creates exactly the ids
\* s+1 .. s+n, owned by the recipient, appends them in ascending order to the
\* recipient's list, adds n to the recipient's balance and sets the supply to
\* s+n; nothing of another account changes.
C8_MintCreatesRange ==
    \A to \in Accounts, n \in MintCounts, rl \in ResourceLimits :
        \A r \in {mint(to, n, rl)} :
            r.err = OK =>
                /\ r.st.supply = supply + n
                /\ NewIds(n) \cap DOMAIN tokens = {}
                /\ DOMAIN r.st.tokens = DOMAIN tokens \cup NewIds(n)
                /\ \A t \in NewIds(n) : r.st.tokens[t] = to
                /\ \A t \in DOMAIN tokens : r.st.tokens[t] = tokens[t]
                /\ r.st.tokensOf[to]
                      = tokensOf[to] \o [i \in 1..n |-> toString(supply + i)]
                /\ r.st.balances[to] = balances[to] + n
                /\ \A x \in Accounts \ {to} :
                      /\ r.st.balances[x] = balances[x]
                      /\ r.st.tokensOf[x] = tokensOf[x]
                /\ r.st.approvals = approvals
                /\ r.st.operators = operators
                /\ r.st.config = config

\* C8 (reached): "b" holds token "1" and the supply is 1; the mint of one more
\* token to "b" creates "2" and puts it after "1".
C8_Witness ==
    /\ supply = 1
    /\ tokensOf["b"] = <<"1">>
    /\ tokens["1"] = "b"
    /\ \E r \in {mint("b", 1, UnitCosts)} :
          /\ r.err = OK
          /\ r.st.supply = 2
          /\ r.st.tokensOf["b"] = <<"1", "2">>
          /\ r.st.tokens["2"] = "b"

\* C9: the stored token ids are exactly the decimal forms of 1 .. supply, a
\* mint writes only ids that are not stored yet, and no step removes a token
\* record.
C9_TokensNeverDeleted ==
    /\ [](/\ DOMAIN tokens = {toString(i) : i \in 1..supply}
          /\ \A to \in Accounts, n \in MintCounts, rl \in ResourceLimits :
                \A r \in {mint(to, n, rl)} :
                    r.err = OK =>
                        /\ NewIds(n) \cap DOMAIN tokens = {}
                        /\ \A t \in DOMAIN tokens : r.st.tokens[t] = tokens[t])
    /\ [][DOMAIN tokens \subseteq DOMAIN tokens']_vars

\* C9 (reached): both tokens exist and the one minted first has changed
\* hands since.
C9_Witness ==
    /\ supply = 2
    /\ DOMAIN tokens = {"1", "2"}
    /\ tokens["1"] = "b"
    /\ tokensOf["b"] = <<"1">>

\* The outcomes of every call other than mint that can be made in the
\* current state.
NonMintCalls ==
    {burn(t) : t \in TokenInputs}
    \cup {transfer(x[1], x[2], x[3], x[4], x[5]) :
            x \in Accounts \X Accounts \X TokenInputs \X Callers \X AuthSets}
    \cup {approve(x[1], x[2], x[3], x[4]) :
            x \in Accounts \X Accounts \X TokenInputs \X AuthSets}
    \cup {set_approval_for_all(x[1], x[2], x[3], x[4]) :
            x \in Accounts \X Accounts \X BOOLEAN \X AuthSets}
    \cup {set_royalties(v, auth) : v \in RoyaltyInputs, auth \in AuthSets}
    \cup {transfer_ownership(o, auth) : o \in Accounts, auth \in AuthSets}

\* C10: no step decreases the supply, a mint never leaves it lower, and every
\* other call leaves it as it was.
C10_SupplyOnlyGrows ==
    /\ [](/\ \A r \in NonMintCalls : r.st.supply = supply
          /\ \A to \in Accounts, n \in MintCounts, rl \in ResourceLimits :
                mint(to, n, rl).st.supply >= supply)
    /\ [][supply' >= supply]_vars

\* C10 (reached): the supply stands at its value after calls other than mint
\* have changed the ledger and the configuration.
C10_Witness ==
    /\ supply = 2
    /\ config.owner = "b"
    /\ config.royalties # <<>>
    /\ tokens["2"] = "b"
    /\ DOMAIN approvals # {}
    /\ DOMAIN operators # {}

\* C11: burn succeeds for every token id, stored or not, leaves the supply,
\* the token records, balances, token lists, approvals, operator approvals
\* and configuration as they were, and emits no event.  (burn reads neither
\* the caller nor the host's authority answer.)
C11_BurnIsNoOp ==
    \A t \in TokenInputs :
        \A r \in {burn(t)} :
            /\ r.err = OK
            /\ r.st.supply = supply
            /\ r.st.tokens = tokens
            /\ r.st.balances = balances
            /\ r.st.tokensOf = tokensOf
            /\ r.st.approvals = approvals
            /\ r.st.operators = operators
            /\ r.st.config = config
            /\ r.events = <<>>

\* C11 (reached): an approved token of "b" exists, an id is not stored yet,
\* and burn of either returns normally with the token record in place.
C11_Witness ==
    /\ supply = 1
    /\ tokens["1"] = "b"
    /\ get_approved("1") = "a"
    /\ ~MapHas(tokens, "2")
    /\ burn("1").err = OK /\ burn("1").st.tokens["1"] = "b"
    /\ burn("2").err = OK

\* The mint events of the ids s+1 .. s+n for recipient to, in ascending order.
MintEventsOf(to, s, n) == [i \in 1..n |-> MintEvent(to, toString(s + i))]

\* C12: a successful mint of n tokens emits exactly n mint events, one per new
\* id in ascending order, each with the notification list [to]; a successful
\* transfer, approve, set_approval_for_all, set_royalties or
\* transfer_ownership emits exactly one event; a failed call emits none.
C12_OneEventPerChange ==
    /\ \A to \in Accounts, n \in MintCounts, rl \in ResourceLimits :
          \A r \in {mint(to, n, rl)} :
              IF r.err = OK
              THEN /\ Len(r.events) = n
                   /\ r.events = MintEventsOf(to, supply, n)
                   /\ \A i \in 1..n :
                         /\ r.events[i].name = "collections.mint_event"
                         /\ r.events[i].token_id = toString(supply + i)
                         /\ r.events[i].impacted = <<to>>
              ELSE r.events = <<>>
    /\ \A r \in NonMintCalls \ {burn(t) : t \in TokenInputs} :
          IF r.err = OK THEN Len(r.events) = 1 ELSE r.events = <<>>

\* C12 (reached): away from the initial configuration, a mint of two tokens
\* emits the events of "1" and "2" in that order and a transfer emits one.
C12_Witness ==
    /\ supply = 1
    /\ tokens["1"] = "a"
    /\ config.owner = "b"
    /\ mint("b", 1, UnitCosts).events = <<MintEvent("b", "2")>>
    /\ Len(transfer("a", "b", "1", "a", {}).events) = 1
    /\ mint("b", MINT_LIMIT + 1, UnitCosts).events = <<>>

\* C13: approve succeeds only if the host confirms the authority of the
\* approver, the token exists, to is not its owner, and the approver is the
\* owner or is_approved_for_all(owner, approver) holds; on success the only
\* change is the single-token approval of the token, set to to; a failed
\* approve has written nothing and changes nothing.
C13_ApproveGuarded ==
    \A approver \in Accounts, to \in Accounts, t \in TokenInputs, auth \in AuthSets :
        \A r \in {approve(approver, to, t, auth)} :
            IF r.err = OK
            THEN /\ approver \in auth
                 /\ MapHas(tokens, t)
                 /\ owner_of(t) # to
                 /\ owner_of(t) = approver \/ is_approved_for_all(owner_of(t), approver)
                 /\ r.st = [Storage EXCEPT !.approvals = MapPut(approvals, t, to)]
                 /\ r.st.approvals[t] = to
            ELSE /\ r.st = Storage
                 /\ r.events = <<>>
                 /\ ~r.wrote

\* C13 (reached): token "1" belongs to "a"; "b" is an operator of "a" and the
\* stored flag of the reverse pair is false.  The approve that "b" makes as
\* operator succeeds, the one "a" makes on the false flag fails, and the one made without authority fails.
C13_Witness ==
    /\ MapHas(tokens, "1") /\ tokens["1"] = "a"
    /\ MapHas(tokens, "2") /\ tokens["2"] = "b"
    /\ is_approved_for_all("a", "b")
    /\ MapHas(operators, <<"a", "b">>) /\ ~is_approved_for_all("b", "a")
    /\ approve("b", "b", "1", {"b"}).err = OK
    /\ approve("a", "a", "2", {"a"}).err = "approver_address is not owner"
    /\ approve("b", "b", "1", {}).err = "account has not authorized action"

\* The step commits set_approval_for_all(approver, operator, approved): the
\* operator approvals become what the handler puts and nothing else changes.
SetApprovalStep(approver, operator, approved) ==
    /\ approver # operator
    /\ operators' = SetOperators(approver, operator, approved)
    /\ UNCHANGED <<supply, tokens, balances, approvals, tokensOf, config, manaCost>>

C15_SetApprovalIdempotent ==
    [][\A A \in Accounts, B \in Accounts, v \in BOOLEAN :
          SetApprovalStep(A, B, v) =>
              (\A r \in {set_approval_for_all(A, B, v, {A})} :
                  r.err = OK /\ r.st = Storage)'
      ]_vars

\* C15 (reached): a flag is stored for operator "b" of "a", tokens exist, and
\* the call that stored it, made again, leaves the storage as it is, while
\* the call with the other flag does not.
C15_Witness ==
    /\ supply > 0
    /\ MapHas(operators, <<"b", "a">>)
    /\ set_approval_for_all("a", "b", operators[<<"b", "a">>], {"a"}).st = Storage
    /\ set_approval_for_all("a", "b", ~operators[<<"b", "a">>], {"a"}).st # Storage

\* The sum of the amounts of a schedule, as a number.
RECURSIVE SumAmounts(_)
SumAmounts(royalties) ==
    IF royalties = <<>> THEN 0
    ELSE Head(royalties).amount + SumAmounts(Tail(royalties))

\* C16: the amounts of the stored royalty schedule sum to at most 10000; a
\* set_royalties whose schedule sums to more than 10000 fails, whoever calls,
\* and leaves the stored schedule as it was; one whose schedule sums to
\* exactly 10000, made with the authority of the owner, succeeds and stores
\* the schedule.
C16_RoyaltiesWithinMax ==
    /\ SumAmounts(config.royalties) <= 10000
    /\ \A v \in RoyaltyInputs, auth \in AuthSets :
          \A r \in {set_royalties(v, auth)} :
              /\ SumAmounts(v) > 10000 =>
                    /\ r.err # OK
                    /\ r.st.config.royalties = config.royalties
                    /\ ~r.wrote
              /\ (SumAmounts(v) = 10000 /\ config.owner \in auth) =>
                    /\ r.err = OK
                    /\ r.st.config.royalties = v
                    /\ r.st = [Storage EXCEPT !.config.royalties = v]

\* C16 (reached): a schedule summing to exactly 10000 is stored, and a call
\* of the owner with a schedule summing to 10001 is refused on the ceiling.
C16_Witness ==
    /\ Len(config.royalties) = 2
    /\ SumAmounts(config.royalties) = 10000
    /\ \E v \in RoyaltyInputs :
          /\ SumAmounts(v) = 10001
          /\ set_royalties(v, {config.owner}).err
                = "MarketplaceV1.execute: ROYALTY_EXCEEDED_MAX"

\* owner(): the configured owner.
owner == config.owner

\* C17: set_royalties and transfer_ownership succeed only with the authority
\* of the configured owner and otherwise fail as an authorization failure with
\* the storage as it was; a successful transfer_ownership(o) changes the
\* configured owner to o and nothing else; and on a step that changes the
\* configured owner, owner() afterwards returns the new owner and both calls
\* then succeed only with the authority of the new owner.
C17_OwnerGuardsConfig ==
    /\ [](/\ \A v \in RoyaltyInputs, auth \in AuthSets :
                \A r \in {set_royalties(v, auth)} :
                    /\ r.err = OK => owner \in auth
                    /\ owner \notin auth =>
                          /\ r.code = "authorization_failure"
                          /\ r.st = Storage
                          /\ ~r.wrote
                    /\ r.err # OK => r.st.config = config
          /\ \A o \in Accounts, auth \in AuthSets :
                \A r \in {transfer_ownership(o, auth)} :
                    /\ r.err = OK <=> owner \in auth
                    /\ r.err = OK => r.st = [Storage EXCEPT !.config.owner = o]
                    /\ r.err # OK =>
                          /\ r.code = "authorization_failure"
                          /\ r.st = Storage
                          /\ ~r.wrote)
    /\ [][config.owner' # config.owner =>
             /\ UNCHANGED <<supply, tokens, balances, approvals, operators, tokensOf>>
             /\ config'.royalties = config.royalties
             /\ owner' = config'.owner
             /\ \A auth \in AuthSets :
                   /\ \A v \in RoyaltyInputs :
                         (set_royalties(v, auth).err = OK)' => config'.owner \in auth
                   /\ \A o \in Accounts :
                         (transfer_ownership(o, auth).err = OK)' <=> config'.owner \in auth
                   /\ (config.owner \in auth /\ config'.owner \notin auth) =>
                         \A o \in Accounts :
                             (transfer_ownership(o, auth).code = "authorization_failure")'
         ]_vars

\* C17 (reached): the ownership has passed to "b" with tokens minted; the
\* authority of "a" no longer opens either call and that of "b" does.
C17_Witness ==
    /\ owner = "b"
    /\ supply > 0
    /\ transfer_ownership("a", {"a"}).code = "authorization_failure"
    /\ set_royalties(<<>>, {"a"}).code = "authorization_failure"
    /\ transfer_ownership("a", {"b"}).err = OK
    /\ set_royalties(<<>>, {"b"}).err = OK

\* C18 (as stated): a transfer or an approve that names a token id that is
\* not stored fails with the generic failure code, never as an authorization
\* failure, whoever calls and whatever authority the host confirms.
C18_NotFoundForEveryCaller ==
    \A t \in TokenInputs :
        ~MapHas(tokens, t) =>
            /\ \A from \in Accounts, to \in Accounts, caller \in Callers,
                  auth \in AuthSets :
                  transfer(from, to, t, caller, auth).code = "failure"
            /\ \A approver \in Accounts, to \in Accounts, auth \in AuthSets :
                  approve(approver, to, t, auth).code = "failure"

\* C18 (amended): a transfer that names a token id that is not stored fails
\* as "nonexistent token" with the generic failure code for every caller and
\* authority answer; an approve that names such an id fails so when the host
\* confirms the authority of the approver, and fails as an authorization
\* failure when it does not.  Neither has written anything.
C18_NotFoundAfterAuthority ==
    \A t \in TokenInputs :
        ~MapHas(tokens, t) =>
            /\ \A from \in Accounts, to \in Accounts, caller \in Callers,
                  auth \in AuthSets :
                  \A r \in {transfer(from, to, t, caller, auth)} :
                      /\ r.err = "nonexistent token"
                      /\ r.code = "failure"
                      /\ r.st = Storage /\ ~r.wrote
            /\ \A approver \in Accounts, to \in Accounts, auth \in AuthSets :
                  \A r \in {approve(approver, to, t, auth)} :
                      /\ approver \in auth =>
                            r.err = "nonexistent token" /\ r.code = "failure"
                      /\ approver \notin auth => r.code = "authorization_failure"
                      /\ r.st = Storage /\ ~r.wrote

\* C18 (reached): token "1" of "a" is stored and "2" is not.  Calls naming
\* "2" are reported as not found, except the approve made without authority;
\* the transfer of "1" by a caller without any right is an authorization
\* failure.
C18_Witness ==
    /\ supply = 1
    /\ MapHas(tokens, "1") /\ tokens["1"] = "a"
    /\ ~MapHas(tokens, "2")
    /\ transfer("a", "b", "2", NoAddr, {}).code = "failure"
    /\ approve("a", "b", "2", {"a"}).err = "nonexistent token"
    /\ approve("a", "b", "2", {}).code = "authorization_failure"
    /\ transfer("a", "b", "1", NoAddr, {}).code = "authorization_failure"

\* The entries of list other than t, in order, and the number of entries t.
Others(list, t) == SelectSeq(list, LAMBDA x : x # t)
Count(list, t) == Len(SelectSeq(list, LAMBDA x : x = t))

\* C19: after a successful transfer(from, to, t) the token is the last entry
\* of to's list, occurs exactly once there and in no other account's list,
\* and the other ids of every list keep their order.
C19_TransferMovesToken ==
    \A from \in Accounts, to \in Accounts, t \in TokenInputs, caller \in Callers,
       auth \in AuthSets :
        \A r \in {transfer(from, to, t, caller, auth)} :
            r.err = OK =>
                /\ Len(r.st.tokensOf[to]) > 0
                /\ r.st.tokensOf[to][Len(r.st.tokensOf[to])] = t
                /\ Count(r.st.tokensOf[to], t) = 1
                /\ \A x \in Accounts \ {to} : Count(r.st.tokensOf[x], t) = 0
                /\ \A x \in Accounts :
                      Others(r.st.tokensOf[x], t) = Others(tokensOf[x], t)

\* Whether a product and a sum fit the unsigned integer type.
ProductFits(a, b) == a = 0 \/ b <= U64_MAX \div a
SumFits(a, b) == a <= U64_MAX - b

\* C20: a mint that returns normally has run
\* ((max(0, price*n - (1123019*c + 282*w + 66*d)) div c) div 14) loops, where
\* c, w, d are the compute, network and storage costs, and none when the
\* attributed mana is at least price*n; when a product or a sum of that
\* computation does not fit the integer type, or c is 0, the mint fails.
C20_ManaLoops ==
    \A to \in Accounts, n \in MintCounts, rl \in ResourceLimits :
        \A r \in {mint(to, n, rl)} :
            /\ (\/ ~ProductFits(1123019, rl.compute)
                \/ ~ProductFits(282, rl.network)
                \/ ~ProductFits(66, rl.disk)
                \/ ~SumFits(1123019 * rl.compute, 282 * rl.network)
                \/ ~SumFits(1123019 * rl.compute + 282 * rl.network, 66 * rl.disk)
                \/ ~ProductFits(manaCost, n)
                \/ rl.compute = 0) => r.err # OK
            /\ r.err = OK =>
                  LET attributed == 1123019 * rl.compute + 282 * rl.network
                                        + 66 * rl.disk
                      price == manaCost * n
                      residual == IF price - attributed > 0
                                  THEN price - attributed ELSE 0
                  IN  /\ r.loops = (residual \div rl.compute) \div 14
                      /\ attributed >= price => r.loops = 0

\* C20 (reached): with tokens minted, a mint at unit costs runs 7062616
\* loops, one whose attributed mana exceeds the price runs none, and one
\* whose compute cost overflows the product fails.
C20_Witness ==
    /\ supply = 1
    /\ manaCost = 100000000
    /\ mint("a", 1, UnitCosts).err = OK
    /\ mint("a", 1, UnitCosts).loops = 7062616
    /\ mint("a", 1, [compute |-> 100, network |-> 10, disk |-> 10]).err = OK
    /\ mint("a", 1, [compute |-> 100, network |-> 10, disk |-> 10]).loops = 0
    /\ mint("a", 1, [compute |-> U64_MAX, network |-> 1, disk |-> 1]).err
          = "could not multiply"

\* C21: for every stored token, with owner A, and every account B (A itself
\* included), the transfer of the token from A to B called by A returns
\* normally: it fails neither on the checked debit of A's balance nor on the
\* search of the token in A's list.
C21_OwnerCanAlwaysTransfer ==
    \A t \in DOMAIN tokens, B \in Accounts :
        \A r \in {transfer(tokens[t], B, t, tokens[t], {})} :
            /\ r.err # "could not subtract"
            /\ r.err # "the sender do not own this token according to tokens list"
            /\ r.err = OK

\* The sum of the stored balances, and the token lists laid end to end.
SumBalances == balances["a"] + balances["b"]
AllListed == tokensOf["a"] \o tokensOf["b"]

\* C22: the stored balances sum to the supply, and the token lists hold as
\* many entries as the supply, no id twice.
C22_Conservation ==
    /\ SumBalances = supply
    /\ Len(AllListed) = supply
    /\ \A i \in 1..Len(AllListed), j \in 1..Len(AllListed) :
          AllListed[i] = AllListed[j] => i = j

\* C23: a single-token approval is stored only for a stored token, and the
\* approved account is not the owner of the token; an approve whose to
\* account is the owner fails without a write.
C23_ApprovalNeverForOwner ==
    /\ \A t \in DOMAIN approvals :
          /\ MapHas(tokens, t)
          /\ approvals[t] # tokens[t]
          /\ get_approved(t) # owner_of(t)
    /\ \A approver \in Accounts, t \in DOMAIN tokens, auth \in AuthSets :
          \A r \in {approve(approver, tokens[t], t, auth)} :
              r.err # OK /\ r.st = Storage /\ ~r.wrote

\* C23 (reached): token "1" of "a" is approved to "b", token "2" belongs to
\* "b" without approval, the approve of "1" to its owner is refused, and the
\* transfer of "1" to the approved account leaves no approval on it.
C23_Witness ==
    /\ MapHas(tokens, "1") /\ tokens["1"] = "a"
    /\ MapHas(tokens, "2") /\ tokens["2"] = "b"
    /\ DOMAIN approvals = {"1"}
    /\ approvals["1"] = "b"
    /\ approve("a", "a", "1", {"a"}).err = "approve to current owner"
    /\ \E r \in {transfer("a", "b", "1", "b", {})} :
          r.err = OK /\ r.st.tokens["1"] = "b" /\ ~MapHas(r.st.approvals, "1")

====
